---- MODULE Spec2Model ----
(***************************************************************************)
(* Duct-wise shipping summary (src/app.py).                                *)
(*                                                                         *)
(* Text is modelled as a sequence of one-character strings, so that the    *)
(* regular expressions, str.strip / str.upper / str.split and the string   *)
(* ordering used by sort_values are computed as the code computes them.    *)
(* A missing cell (NaN / None) is the value Null.                          *)
(* pandas semantics are those of pandas 1.x / 2.x.                         *)
(***************************************************************************)
EXTENDS Integers, Sequences, FiniteSets, TLC

VARIABLES
    pc,             \* position of the run (load loop, load tail, UI script)
    uploaded_files, \* st.file_uploader result: the files of this run
    file_i,         \* index of the file the load loop is at
    all_rows,       \* load_uploaded_excels: list of non-empty sheets read
    errors,         \* load_uploaded_excels: list of (name, message)
    big,            \* the unified table returned by load_uploaded_excels
    shown,          \* what the UI has reported to the user, in order
    units,          \* options offered by the Unit No multiselect
    unit_sel,       \* selected Unit No options
    vendors,        \* options offered by the Vendor Name multiselect
    vendor_sel,     \* selected Vendor Name options
    df,             \* the filtered table handed to both reports
    detailed,       \* summarize_by_duct_vendor_po(df)
    master_df,      \* build_master_sheet(df)
    fn_arg,         \* helper call: the argument
    fn_ret          \* helper call: the value returned

vars == <<pc, uploaded_files, file_i, all_rows, errors, big, shown, units,
          unit_sel, vendors, vendor_sel, df, detailed, master_df, fn_arg, fn_ret>>

-----------------------------------------------------------------------------
(* Bounds of the model *)

MaxRows == 3
MaxFiles == 3
MaxCodeLen == 6
MaxBlock == 2

-----------------------------------------------------------------------------
(* Characters and strings *)

\* The characters of the model, in code-point order.
Alphabet ==
    <<" ", "(", ")", "-",
      "0", "1", "2", "3", "4", "5", "6", "7", "8", "9",
      "A", "B", "C", "D", "E", "F", "G", "H", "I", "J", "K", "L", "M",
      "N", "O", "P", "Q", "R", "S", "T", "U", "V", "W", "X", "Y", "Z",
      "_",
      "a", "b", "c", "d", "e", "f", "g", "h", "i", "j", "k", "l", "m",
      "n", "o", "p", "q", "r", "s", "t", "u", "v", "w", "x", "y", "z">>

Ord == [c \in {Alphabet[i] : i \in 1..Len(Alphabet)} |->
            CHOOSE i \in 1..Len(Alphabet) : Alphabet[i] = c]

Digits == {"0", "1", "2", "3", "4", "5", "6", "7", "8", "9"}
UpperLetters == {Alphabet[i] : i \in 15..40}
LowerLetters == {Alphabet[i] : i \in 42..67}

\* None / NaN: the value of a missing cell; it is not a str.
Null == <<"NULL">>

IsStr(s) == s # Null

IsDigit(c) == c \in Digits
IsUpperAZ(c) == c \in UpperLetters
\* \w of the re module, on the model's characters
IsWordChar(c) == c \in Digits \cup UpperLetters \cup LowerLetters \cup {"_"}
\* \s of the re module and the default of str.strip, on the model's characters
IsSpace(c) == c = " "

Min(S) == CHOOSE x \in S : \A y \in S : x <= y

UpperChar(c) == IF c \in LowerLetters THEN Alphabet[Ord[c] - 27] ELSE c

\* str.upper
StrUpper(s) == [i \in 1..Len(s) |-> UpperChar(s[i])]

\* str.strip()
StrStrip(s) ==
    LET keep == {i \in 1..Len(s) : ~IsSpace(s[i])}
    IN  IF keep = {} THEN <<>>
        ELSE LET lo == Min(keep)
                 hi == CHOOSE x \in keep : \A y \in keep : y <= x
             IN  SubSeq(s, lo, hi)

\* str.strip(ch)
StrStripChar(s, ch) ==
    LET keep == {i \in 1..Len(s) : s[i] # ch}
    IN  IF keep = {} THEN <<>>
        ELSE LET lo == Min(keep)
                 hi == CHOOSE x \in keep : \A y \in keep : y <= x
             IN  SubSeq(s, lo, hi)

\* str.split(ch): the parts between the occurrences of ch
RECURSIVE StrSplit(_, _)
StrSplit(s, ch) ==
    LET at == {i \in 1..Len(s) : s[i] = ch}
    IN  IF at = {} THEN <<s>>
        ELSE LET k == Min(at)
             IN  <<SubSeq(s, 1, k - 1)>> \o StrSplit(SubSeq(s, k + 1, Len(s)), ch)

\* a < b for two str, as Python compares them (by code point, then length)
StrLess(a, b) ==
    LET n == IF Len(a) < Len(b) THEN Len(a) ELSE Len(b)
        d == {i \in 1..n : a[i] # b[i]}
    IN  IF d = {} THEN Len(a) < Len(b)
        ELSE LET k == Min(d) IN Ord[a[k]] < Ord[b[k]]

\* s contains the literal text t
StrContains(s, t) ==
    \E i \in 1..(Len(s) - Len(t) + 1) : SubSeq(s, i, i + Len(t) - 1) = t

AllDigits(s) == \A i \in 1..Len(s) : IsDigit(s[i])

DigitVal(c) == Ord[c] - Ord["0"]

\* int(s) of a non-empty all-digit str
RECURSIVE ParseInt(_)
ParseInt(s) ==
    IF Len(s) = 0 THEN 0
    ELSE 10 * ParseInt(SubSeq(s, 1, Len(s) - 1)) + DigitVal(s[Len(s)])

-----------------------------------------------------------------------------
(* Regular expressions (src/app.py 51-56) *)

\* (?:P\d{2}|[A-Z]{1,3}\d{2,3}|\d{3})$ : t is the whole rest of the string
RE_DUCT_NO_tail(t) ==
    \/ Len(t) = 3 /\ t[1] = "P" /\ IsDigit(t[2]) /\ IsDigit(t[3])
    \/ \E k \in 1..3 : \E m \in 2..3 :
          /\ Len(t) = k + m
          /\ \A i \in 1..k : IsUpperAZ(t[i])
          /\ \A i \in (k + 1)..(k + m) : IsDigit(t[i])
    \/ Len(t) = 3 /\ AllDigits(t)

\* the start positions at which RE_DUCT_NO matches in s
RE_DUCT_NO_starts(s) ==
    {i \in 1..(Len(s) - 2) :
        /\ IsDigit(s[i]) /\ IsDigit(s[i + 1]) /\ IsDigit(s[i + 2])
        /\ RE_DUCT_NO_tail(SubSeq(s, i + 3, Len(s)))}

\* RE_DUCT_NO.search(s): group(1) of the leftmost match, or Null
RE_DUCT_NO_search(s) ==
    LET st == RE_DUCT_NO_starts(s)
    IN  IF st = {} THEN Null
        ELSE LET i == Min(st) IN SubSeq(s, i, i + 2)

\* \b at the gap before position i of s (1 <= i <= Len(s)+1)
WordBoundary(s, i) ==
    LET before == i > 1 /\ IsWordChar(s[i - 1])
        after == i <= Len(s) /\ IsWordChar(s[i])
    IN  before # after

\* \b<p1><p2>\s*\d{3}\b found somewhere in s (RE_AB_CODE, RE_GB_CODE)
RE_CODE_contains(s, p1, p2) ==
    \E i \in 1..Len(s) : \E j \in (i + 2)..Len(s) :
        /\ s[i] = p1 /\ s[i + 1] = p2
        /\ WordBoundary(s, i)
        /\ \A k \in (i + 2)..(j - 1) : IsSpace(s[k])
        /\ j + 2 <= Len(s)
        /\ IsDigit(s[j]) /\ IsDigit(s[j + 1]) /\ IsDigit(s[j + 2])
        /\ WordBoundary(s, j + 3)

RE_AB_CODE_contains(s) == RE_CODE_contains(s, "A", "B")
RE_GB_CODE_contains(s) == RE_CODE_contains(s, "G", "B")

\* PANEL|PANELASSY, IGNORECASE, found somewhere in s
RE_PANEL_TAG_contains(s) ==
    StrContains(StrUpper(s), <<"P", "A", "N", "E", "L">>)

\* ^P(\d+)$ : group(1), or Null
RE_PANEL_NO_extract(s) ==
    IF Len(s) >= 2 /\ s[1] = "P" /\ AllDigits(SubSeq(s, 2, Len(s)))
    THEN SubSeq(s, 2, Len(s))
    ELSE Null

\* ^\d+$
RE_NUMERIC_match(s) == Len(s) >= 1 /\ AllDigits(s)

-----------------------------------------------------------------------------
(* Helpers (src/app.py 59-91) *)

\* a variant of extract_duct_no that leaves out upper()
extract_duct_no_noupper(du_code) ==
    IF ~IsStr(du_code) THEN Null
    ELSE RE_DUCT_NO_search(StrStrip(StrSplit(du_code, "(")[1]))

extract_duct_no(du_code) ==
    IF ~IsStr(du_code) THEN Null
    ELSE LET core == StrStrip(StrSplit(du_code, "(")[1])
             core_u == StrUpper(core)
         IN  RE_DUCT_NO_search(core_u)

\* returns <<Unit No, WBS Code>>
extract_unit_wbs(pkg_code) ==
    IF ~IsStr(pkg_code) THEN <<Null, Null>>
    ELSE LET s == StrStripChar(StrStrip(pkg_code), "-")
             parts == StrSplit(s, "-")
         IN  IF Len(parts) >= 2
             THEN <<parts[1], parts[1] \o <<"-">> \o parts[2]>>
             ELSE IF Len(parts) = 1 /\ parts[1] # <<>>
                  THEN <<parts[1], Null>>
                  ELSE <<Null, Null>>

S_AB == <<"A", "B">>
S_GB == <<"G", "B">>

\* a variant of detect_duct_prefix_for_block that looks for GB codes first
detect_duct_prefix_gb_first(descs) ==
    LET U == {StrUpper(descs[i]) : i \in {k \in 1..Len(descs) : IsStr(descs[k])}}
    IN  IF \E u \in U : RE_GB_CODE_contains(u) THEN S_GB
        ELSE IF \E u \in U : RE_AB_CODE_contains(u) THEN S_AB
        ELSE IF \E u \in U : RE_PANEL_TAG_contains(u) /\ StrContains(u, S_AB) THEN S_AB
        ELSE IF \E u \in U : RE_PANEL_TAG_contains(u) /\ StrContains(u, S_GB) THEN S_GB
        ELSE Null

\* descs: the DU Description cells of one duct group, in row order
detect_duct_prefix_for_block(descs) ==
    LET U == {StrUpper(descs[i]) : i \in {k \in 1..Len(descs) : IsStr(descs[k])}}
    IN  IF \E u \in U : RE_AB_CODE_contains(u) THEN S_AB
        ELSE IF \E u \in U : RE_GB_CODE_contains(u) THEN S_GB
        ELSE IF \E u \in U : RE_PANEL_TAG_contains(u) /\ StrContains(u, S_AB) THEN S_AB
        ELSE IF \E u \in U : RE_PANEL_TAG_contains(u) /\ StrContains(u, S_GB) THEN S_GB
        ELSE Null

-----------------------------------------------------------------------------
(* Configuration (src/app.py 15-25) *)

REQUIRED_COLS ==
    {"Vendor Name", "PO No", "Package Code of Description", "DU Code",
     "DU Description", "Total Weight", "Modified On", "Package Code of MR",
     "Mark No"}

\* c.strip() of a column header; the model's only padded header is "Mark No "
StripName(c) == IF c = "Mark No " THEN "Mark No" ELSE c

-----------------------------------------------------------------------------
(* Cell conversions used by load_uploaded_excels and build_master_sheet *)

S_None == <<"N", "o", "n", "e">>
S_nan == <<"n", "a", "n">>

\* Series.astype(str): a missing cell becomes the text of its Python value
\* ("None" for None, "nan" for NaN), passed as nulltext
AsTypeStr(v, nulltext) == IF v = Null THEN nulltext ELSE v

\* pd.to_numeric(errors="coerce").fillna(0) of one cell read with dtype=str
ToNumericFill0(v) ==
    IF IsStr(v) /\ Len(v) >= 1 /\ AllDigits(v) THEN ParseInt(v) ELSE 0

\* NaT
NaT == -1

\* pd.to_datetime(errors="coerce") of one cell holding YYYY-MM-DD; the
\* timestamp is kept as the number YYYYMMDD, which orders as the dates do
ToDatetime(v) ==
    IF /\ IsStr(v) /\ Len(v) = 10 /\ v[5] = "-" /\ v[8] = "-"
       /\ AllDigits(SubSeq(v, 1, 4)) /\ AllDigits(SubSeq(v, 6, 7))
       /\ AllDigits(SubSeq(v, 9, 10))
       /\ ParseInt(SubSeq(v, 6, 7)) \in 1..12
       /\ ParseInt(SubSeq(v, 9, 10)) \in 1..28
    THEN ParseInt(SubSeq(v, 1, 4)) * 10000 + ParseInt(SubSeq(v, 6, 7)) * 100
         + ParseInt(SubSeq(v, 9, 10))
    ELSE NaT

MonthAbbr ==
    << <<"J","a","n">>, <<"F","e","b">>, <<"M","a","r">>, <<"A","p","r">>,
       <<"M","a","y">>, <<"J","u","n">>, <<"J","u","l">>, <<"A","u","g">>,
       <<"S","e","p">>, <<"O","c","t">>, <<"N","o","v">>, <<"D","e","c">> >>

DigitChar(n) == Alphabet[Ord["0"] + n]

\* strftime("%d-%b-%Y") of a timestamp; NaT gives a missing cell
StrfTime(t) ==
    IF t = NaT THEN Null
    ELSE LET y == t \div 10000
             m == (t \div 100) % 100
             d == t % 100
         IN  <<DigitChar(d \div 10), DigitChar(d % 10), "-">> \o MonthAbbr[m]
             \o <<"-", DigitChar(y \div 1000), DigitChar((y \div 100) % 10),
                  DigitChar((y \div 10) % 10), DigitChar(y % 10)>>

-----------------------------------------------------------------------------
(* Tables: [cols |-> set of column names, rows |-> sequence of rows];       *)
(* a row is a function from the column names to cells, and carries its      *)
(* index label under "index".                                               *)

EmptyDF == [cols |-> {}, rows |-> <<>>]

RECURSIVE Flatten(_)
Flatten(ss) == IF ss = <<>> THEN <<>> ELSE Head(ss) \o Flatten(Tail(ss))

\* pd.concat(frames, ignore_index=True): the union of the columns, missing
\* cells NaN, rows in order, index 0..n-1
Concat(frames) ==
    LET cols == UNION {frames[i].cols : i \in 1..Len(frames)}
        fill(r) == [c \in cols |-> IF c \in DOMAIN r THEN r[c] ELSE Null]
        rows == Flatten([i \in 1..Len(frames) |->
                    [k \in 1..Len(frames[i].rows) |-> fill(frames[i].rows[k])]])
    IN  [cols |-> cols,
         rows |-> [k \in 1..Len(rows) |->
                     [c \in cols \cup {"index"} |->
                         IF c = "index" THEN k - 1 ELSE rows[k][c]]]]

\* big.columns = [c.strip() for c in big.columns]
StripColumns(t) ==
    LET raw(c) == CHOOSE x \in t.cols : StripName(x) = c
        cols == {StripName(x) : x \in t.cols}
    IN  [cols |-> cols,
         rows |-> [k \in 1..Len(t.rows) |->
                     [c \in cols \cup {"index"} |->
                         IF c = "index" THEN t.rows[k]["index"]
                         ELSE t.rows[k][raw(c)]]]]

\* the column of a table, as a sequence of cells
Column(rows, c) == [k \in 1..Len(rows) |-> rows[k][c]]

\* the rows with new or replaced columns: vals[c] is the new column c
WithColumns(rows, vals) ==
    [k \in 1..Len(rows) |->
        [c \in DOMAIN rows[k] \cup DOMAIN vals |->
            IF c \in DOMAIN vals THEN vals[c][k] ELSE rows[k][c]]]

-----------------------------------------------------------------------------
(* build_duct_key_column (src/app.py 93-103) *)

\* df.groupby("Duct No", dropna=True).apply(detect_duct_prefix_for_block):
\* one entry per non-null Duct No
prefix_by_duct(rows) ==
    LET ducts == {rows[k]["Duct No"] : k \in 1..Len(rows)} \ {Null}
        block(d) == SelectSeq(rows, LAMBDA r : r["Duct No"] = d)
    IN  [d \in ducts |->
            detect_duct_prefix_for_block(Column(block(d), "DU Description"))]

\* groupby.apply returns an empty DataFrame, not a Series, when there is no
\* group or when every group's result is None; Series.map of a DataFrame
\* then raises ValueError
PrefixMapRaises(rows) ==
    \A d \in DOMAIN prefix_by_duct(rows) : prefix_by_duct(rows)[d] = Null

\* a variant that decides the prefix row by row instead of per duct group
build_duct_key_column_rowlevel(rows) ==
    [k \in 1..Len(rows) |->
        LET dn == rows[k]["Duct No"]
            prefix_series == IF dn = Null THEN Null
                             ELSE detect_duct_prefix_for_block(<<rows[k]["DU Description"]>>)
            duct_str == AsTypeStr(dn, S_None)
        IN  IF prefix_series # Null THEN prefix_series \o duct_str ELSE duct_str]

build_duct_key_column(rows) ==
    LET p == prefix_by_duct(rows)
    IN  [k \in 1..Len(rows) |->
            LET dn == rows[k]["Duct No"]
                prefix_series == IF dn \in DOMAIN p THEN p[dn] ELSE Null
                duct_str == AsTypeStr(dn, S_None)
            IN  IF prefix_series # Null THEN prefix_series \o duct_str ELSE duct_str]

-----------------------------------------------------------------------------
(* load_uploaded_excels, after the read loop (src/app.py 133-152) *)

ConcatStripped(frames) == StripColumns(Concat(frames))

\* a variant of MissingColumns that does not require Mark No
MissingColumns_no_mark(frames) ==
    (REQUIRED_COLS \ {"Mark No"}) \ ConcatStripped(frames).cols

MissingColumns(frames) == REQUIRED_COLS \ ConcatStripped(frames).cols

\* lines 143-144: Duct No, Unit No, WBS Code attached
WithCodes(t) ==
    LET uw == [k \in 1..Len(t.rows) |-> extract_unit_wbs(t.rows[k]["Package Code of MR"])]
    IN  WithColumns(t.rows,
            [c \in {"Duct No", "Unit No", "WBS Code"} |->
                [k \in 1..Len(t.rows) |->
                    CASE c = "Duct No" -> extract_duct_no(t.rows[k]["DU Code"])
                      [] c = "Unit No" -> uw[k][1]
                      [] c = "WBS Code" -> uw[k][2]]])

\* lines 143-150 on the concatenated table
Derive(t) ==
    LET r1 == WithCodes(t)
        r2 == WithColumns(r1, [c \in {"Duct Key"} |-> build_duct_key_column(r1)])
        r3 == WithColumns(r2,
                [c \in {"Total Weight", "Modified On"} |->
                    [k \in 1..Len(r2) |->
                        IF c = "Total Weight" THEN ToNumericFill0(r2[k][c])
                        ELSE ToDatetime(r2[k][c])]])
    IN  [cols |-> t.cols \cup {"Duct No", "Unit No", "WBS Code", "Duct Key"},
         rows |-> r3]

-----------------------------------------------------------------------------
(* Ordering used by sort_values and groupby: -1, 0, 1 *)

\* two cells of a text column, missing cells last
CmpStr(a, b) ==
    IF a = b THEN 0
    ELSE IF a = Null THEN 1
    ELSE IF b = Null THEN -1
    ELSE IF StrLess(a, b) THEN -1 ELSE 1

CmpInt(a, b) == IF a = b THEN 0 ELSE IF a < b THEN -1 ELSE 1

\* the first comparison that decides, over the columns in order
LexCmp(cs) ==
    LET nz == {i \in 1..Len(cs) : cs[i] # 0}
    IN  IF nz = {} THEN 0 ELSE cs[Min(nz)]

\* a stable sort of s by a strict order, less[i][j] telling whether s[i]
\* comes before s[j] in it (np.lexsort is stable)
StableSort(s, less) ==
    LET n == Len(s)
        pos(i) == 1 + Cardinality({j \in 1..n :
                        \/ less[j][i]
                        \/ ~less[i][j] /\ j < i})
    IN  [k \in 1..n |-> s[CHOOSE i \in 1..n : pos(i) = k]]

RECURSIVE SumSeq(_)
SumSeq(s) == IF s = <<>> THEN 0 ELSE Head(s) + SumSeq(Tail(s))

\* max of a datetime column, NaT skipped; NaT when all are NaT
MaxDate(s) ==
    LET ds == {s[i] : i \in 1..Len(s)} \ {NaT}
    IN  IF ds = {} THEN NaT ELSE CHOOSE d \in ds : \A e \in ds : e <= d

-----------------------------------------------------------------------------
(* summarize_by_duct_vendor_po (src/app.py 155-168), with the UI's renames  *)
(* of Total_Weight and Latest_Modified_On (253-258)                         *)

GROUP_COLS ==
    <<"Duct Key", "Unit No", "WBS Code", "Vendor Name", "PO No",
      "Package Code of Description">>

GroupKey(r) == [i \in 1..Len(GROUP_COLS) |-> r[GROUP_COLS[i]]]

\* a variant of the reports' row filter that tests Duct Key alone
HasDuctKeyOnly(r) == r["Duct Key"] # Null

\* the rows both reports keep
HasDuct(r) == r["Duct No"] # Null /\ r["Duct Key"] # Null


\* groupby(..., dropna=False) sorts its groups by the six keys
GroupKeyLess(a, b) ==
    LexCmp([i \in 1..Len(GROUP_COLS) |-> CmpStr(a[i], b[i])]) = -1

\* sort_values(by=["Duct Key", "Unit No", "Vendor Name", "PO No"])
SummaryLess(a, b) ==
    LexCmp(<<CmpStr(a["Duct No"], b["Duct No"]), CmpStr(a["Unit No"], b["Unit No"]),
             CmpStr(a["Vendor Name"], b["Vendor Name"]),
             CmpStr(a["PO No"], b["PO No"])>>) = -1

\* a set of group keys as the sequence groupby yields
RECURSIVE SortedKeys(_)
SortedKeys(K) ==
    IF K = {} THEN <<>>
    ELSE LET m == CHOOSE x \in K : \A y \in K \ {x} : GroupKeyLess(x, y)
         IN  <<m>> \o SortedKeys(K \ {m})

AggregateRow(filt, key) ==
    LET grp == SelectSeq(filt, LAMBDA r : GroupKey(r) = key)
    IN  [c \in {"Duct No", "Unit No", "WBS Code", "Vendor Name", "PO No",
                "Package Code of Description", "Total Weight",
                "Latest Modified On"} |->
            CASE c = "Duct No" -> key[1]
              [] c = "Unit No" -> key[2]
              [] c = "WBS Code" -> key[3]
              [] c = "Vendor Name" -> key[4]
              [] c = "PO No" -> key[5]
              [] c = "Package Code of Description" -> key[6]
              [] c = "Total Weight" -> SumSeq(Column(grp, "Total Weight"))
              [] c = "Latest Modified On" -> MaxDate(Column(grp, "Modified On"))]

\* a variant of summarize_by_duct_vendor_po that groups with dropna=True
summarize_dropna(rows) ==
    LET filt == SelectSeq(rows, LAMBDA r : HasDuct(r) /\ \A i \in 1..Len(GROUP_COLS) :
                                                r[GROUP_COLS[i]] # Null)
        keys == SortedKeys({GroupKey(filt[k]) : k \in 1..Len(filt)})
        agg == [i \in 1..Len(keys) |-> AggregateRow(filt, keys[i])]
    IN  StableSort(agg, [i \in 1..Len(agg) |-> [j \in 1..Len(agg) |->
                            SummaryLess(agg[i], agg[j])]])

summarize_by_duct_vendor_po(rows) ==
    LET filt == SelectSeq(rows, HasDuct)
        keys == SortedKeys({GroupKey(filt[k]) : k \in 1..Len(filt)})
        agg == [i \in 1..Len(keys) |-> AggregateRow(filt, keys[i])]
    IN  StableSort(agg, [i \in 1..Len(agg) |-> [j \in 1..Len(agg) |->
                            SummaryLess(agg[i], agg[j])]])

-----------------------------------------------------------------------------
(* build_master_sheet (src/app.py 170-194) *)

\* 10**9, the fill value of __ord1__ and __ord2__
ORD_FILL == 1000000000

\* mn: Mark No as text, trimmed and uppercased
MarkText(r) == StrUpper(StrStrip(AsTypeStr(r["Mark No"], S_nan)))

\* __grp__
MarkGrp(r) ==
    IF RE_PANEL_NO_extract(MarkText(r)) # Null THEN 0
    ELSE IF RE_NUMERIC_match(MarkText(r)) THEN 1 ELSE 2

\* __ord1__
MarkOrd1(r) ==
    LET g == RE_PANEL_NO_extract(MarkText(r))
    IN  IF g # Null THEN ParseInt(g) ELSE ORD_FILL

\* __ord2__
MarkOrd2(r) ==
    IF RE_NUMERIC_match(MarkText(r)) THEN ParseInt(MarkText(r)) ELSE ORD_FILL

\* a variant of MasterLess that orders the marks of a group as text
MasterLess_text(a, b) ==
    LexCmp(<<CmpStr(a["Duct Key"], b["Duct Key"]), CmpStr(a["Unit No"], b["Unit No"]),
             CmpInt(MarkGrp(a), MarkGrp(b)), CmpStr(MarkText(a), MarkText(b)),
             CmpStr(a["PO No"], b["PO No"]), CmpStr(a["DU Code"], b["DU Code"])>>) = -1

\* sort_values(by=[Duct Key, Unit No, __grp__, __ord1__, __ord2__, PO No,
\* DU Code], na_position="last")
MasterLess(a, b) ==
    LexCmp(<<CmpStr(a["Duct Key"], b["Duct Key"]), CmpStr(a["Unit No"], b["Unit No"]),
             CmpInt(MarkGrp(a), MarkGrp(b)), CmpInt(MarkOrd1(a), MarkOrd1(b)),
             CmpInt(MarkOrd2(a), MarkOrd2(b)), CmpStr(a["PO No"], b["PO No"]),
             CmpStr(a["DU Code"], b["DU Code"])>>) = -1

\* the columns of MASTER_FRONT_COLS the model's tables hold
MASTER_FRONT_COLS ==
    {"DU Code", "DU Description", "Mark No", "Total Weight", "Vendor Name",
     "PO No", "Package Code of Description", "Package Code of MR", "Modified On"}

\* format_date_cols on "Modified On": rewritten only when some value parses
FormatModified(rows) ==
    IF \E k \in 1..Len(rows) : rows[k]["Modified On"] # NaT
    THEN WithColumns(rows, [c \in {"Modified On"} |->
                        [k \in 1..Len(rows) |-> StrfTime(rows[k]["Modified On"])]])
    ELSE rows

build_master_sheet(rows) ==
    LET sel == SelectSeq(rows, HasDuct)
        d == StableSort(sel, [i \in 1..Len(sel) |-> [j \in 1..Len(sel) |->
                                MasterLess(sel[i], sel[j])]])
        out == [k \in 1..Len(d) |->
                  [c \in {"index", "Duct No", "Unit No", "WBS Code"} \cup MASTER_FRONT_COLS |->
                      IF c = "Duct No" THEN d[k]["Duct Key"] ELSE d[k][c]]]
    IN  FormatModified(out)

-----------------------------------------------------------------------------
(* Filters (src/app.py 230-246) *)

\* x[x[col].isin(sel)]
IsIn(rows, col, sel) == SelectSeq(rows, LAMBDA r : r[col] \in sel)

\* x[col].dropna().unique()
Options(rows, col) == {rows[k][col] : k \in 1..Len(rows)} \ {Null}

\* tmp
FilterUnit(rows, usel) ==
    IF Options(rows, "Unit No") # {} THEN IsIn(rows, "Unit No", usel) ELSE rows

\* df
FilterVendor(tmp, vsel) ==
    IF Options(tmp, "Vendor Name") # {} THEN IsIn(tmp, "Vendor Name", vsel) ELSE tmp

-----------------------------------------------------------------------------
(* The inputs of the model: cell texts *)

C_637X01 == <<"6", "3", "7", "X", "0", "1">>
C_637P02 == <<"6", "3", "7", "P", "0", "2">>
C_637123 == <<"6", "3", "7", "1", "2", "3">>
C_638HX01 == <<"6", "3", "8", "H", "X", "0", "1">>
C_NOMATCH == <<"N", "O", "-", "M", "A", "T", "C", "H">>
C_638x01_R1 == <<"6", "3", "8", "x", "0", "1", " ", "(", "R", "1", ")">>
C_639123 == <<"6", "3", "9", "1", "2", "3">>
D_AB123 == <<"A", "B", "1", "2", "3">>
D_GB123 == <<"G", "B", "1", "2", "3">>
D_ab_123 == <<"d", "u", "c", "t", " ", "a", "b", " ", "1", "2", "3">>
D_PANEL_AB == <<"P", "A", "N", "E", "L", " ", "A", "B">>
D_panelassy_gb == <<"p", "a", "n", "e", "l", "a", "s", "s", "y", " ", "g", "b">>
D_AB1234 == <<"A", "B", "1", "2", "3", "4">>
D_XGB123 == <<"X", "G", "B", "1", "2", "3">>
D_DUCT == <<"D", "U", "C", "T">>
D_PANEL == <<"P", "A", "N", "E", "L">>
D_TAB == <<"T", "A", "B">>
M_P2 == <<"P", "2">>
M_P10 == <<"P", "1", "0">>
M_3 == <<"3">>
M_7 == <<"7">>
M_X9 == <<"X", "9">>
M_p2_pad == <<" ", "p", "2", " ">>
M_03 == <<"0", "3">>
U_U1_W1_X == <<"U", "1", "-", "W", "1", "-", "X">>
U_U2 == <<"U", "2">>
U_dash_U1 == <<"-", "U", "1", "-">>
V_V1 == <<"V", "1">>
V_V2 == <<"V", "2">>
P_PO1 == <<"P", "O", "1">>
P_PO2 == <<"P", "O", "2">>
K_K1 == <<"K", "1">>
K_K2 == <<"K", "2">>
W_10 == <<"1", "0">>
W_15 == <<"1", "5">>
W_abc == <<"a", "b", "c">>
W_5 == <<"5">>
W_7 == <<"7">>
W_20 == <<"2", "0">>
T_2024_01_05 == <<"2", "0", "2", "4", "-", "0", "1", "-", "0", "5">>
T_2024_02_07 == <<"2", "0", "2", "4", "-", "0", "2", "-", "0", "7">>
T_junk == <<"s", "o", "o", "n">>
X_AHU_637X01 == <<"A", "H", "U", "-", "0", "4", "-", "6", "3", "7", "X", "0", "1">>
X_AHU_637HX01 == <<"A", "H", "U", "-", "0", "4", "-", "6", "3", "7", "H", "X", "0", "1">>
X_AHU_637P02 == <<"A", "H", "U", "-", "0", "4", "-", "6", "3", "7", "P", "0", "2">>
X_AHU_637123 == <<"A", "H", "U", "-", "0", "4", "-", "6", "3", "7", "1", "2", "3">>
X_NO_MATCH_HERE == <<"N", "O", "-", "M", "A", "T", "C", "H", "-", "H", "E", "R", "E">>
X_lower_paren == <<" ", "a", "h", "u", "-", "0", "4", "-", "6", "3", "7", "x", "0", "1", " ", "(", "r", "e", "v", " ", "2", ")">>
X_4letters == <<"6", "3", "7", "A", "B", "C", "D", "0", "1">>
X_9digits == <<"1", "2", "3", "4", "5", "6", "7", "8", "9">>

\* one spreadsheet row, all cells read as text (dtype=str); Null is an empty cell
Row(code, desc, mark, mr, vendor, po, pkg, w, mod) ==
    [c \in REQUIRED_COLS |->
        CASE c = "DU Code" -> code
          [] c = "DU Description" -> desc
          [] c = "Mark No" -> mark
          [] c = "Package Code of MR" -> mr
          [] c = "Vendor Name" -> vendor
          [] c = "PO No" -> po
          [] c = "Package Code of Description" -> pkg
          [] c = "Total Weight" -> w
          [] c = "Modified On" -> mod]

Row1 == Row(C_637X01, D_AB123, M_P2, U_U1_W1_X, V_V1, P_PO1, K_K1, W_10, T_2024_01_05)
Row2 == Row(C_637P02, D_DUCT, M_P10, U_U1_W1_X, V_V1, P_PO1, K_K1, Null, T_2024_02_07)
Row3 == Row(C_637123, D_GB123, M_3, U_U1_W1_X, V_V1, P_PO1, K_K1, W_15, T_junk)
Row4 == Row(C_638HX01, D_panelassy_gb, M_7, U_U2, V_V2, Null, K_K2, W_abc, Null)
Row5 == Row(C_NOMATCH, D_AB123, M_X9, U_U2, V_V1, P_PO1, K_K1, W_5, Null)
Row6 == Row(C_638x01_R1, D_AB1234, M_p2_pad, U_U1_W1_X, V_V1, P_PO2, K_K1, W_7, T_2024_01_05)
Row7 == Row(C_639123, Null, Null, U_dash_U1, V_V1, P_PO1, K_K1, W_20, T_2024_02_07)
Row8 == Row(C_637X01, D_PANEL_AB, M_03, Null, Null, P_PO2, K_K1, W_5, Null)

RowPool == {Row1, Row2, Row3, Row4, Row5, Row6, Row7, Row8}

\* the five rows of one duct and unit that differ in Mark No only
MarkRow(mark) == Row(C_637X01, D_AB123, mark, U_U1_W1_X, V_V1, P_PO1, K_K1, W_10, Null)
MarkRows == {MarkRow(m) : m \in {M_P2, M_P10, M_3, M_7, M_X9}}

Header == REQUIRED_COLS
NoMarkHeader == REQUIRED_COLS \ {"Mark No"}
PaddedHeader == NoMarkHeader \cup {"Mark No "}

\* a sheet with the given header holding the given rows
Sheet(header, rows) ==
    [cols |-> header,
     rows |-> [k \in 1..Len(rows) |-> [c \in header |-> rows[k][StripName(c)]]]]

File(name, ok, msg, sheets) == [name |-> name, ok |-> ok, msg |-> msg, sheets |-> sheets]

Tables(pool, n) == UNION {[1..k -> pool] : k \in 1..n}

FilePool ==
    { File("bad.xlsx", FALSE, "File is not a zip file", <<>>),
      File("good.xlsx", TRUE, "", <<Sheet(Header, <<Row1>>)>>),
      File("nomark.xlsx", TRUE, "", <<Sheet(NoMarkHeader, <<Row4>>)>>),
      File("blank.xlsx", TRUE, "", <<Sheet(NoMarkHeader, <<>>)>>),
      File("two.xlsx", TRUE, "", <<Sheet(Header, <<Row3>>), Sheet(Header, <<Row5>>)>>) }

Permutations5 ==
    {t \in [1..5 -> MarkRows] : \A i, j \in 1..5 : i # j => t[i] # t[j]}

Uploads ==
    \* one workbook, one sheet
    {<<File("data.xlsx", TRUE, "", <<Sheet(Header, t)>>)>> : t \in Tables(RowPool, MaxRows)}
    \* several workbooks, some unreadable, some lacking a column
    \cup UNION {[1..k -> FilePool] : k \in 0..MaxFiles}
    \* a padded header
    \cup {<<File("padded.xlsx", TRUE, "", <<Sheet(PaddedHeader, t)>>)>> : t \in Tables(RowPool, 1)}
    \* the five Mark Nos of one duct in every order
    \cup {<<File("marks.xlsx", TRUE, "", <<Sheet(Header, t)>>)>> : t \in Permutations5}

-----------------------------------------------------------------------------
(* The run: the UI script (src/app.py 204-287) calling load_uploaded_excels *)

NotMade == [made |-> FALSE, rows |-> <<>>]
Made(rows) == [made |-> TRUE, rows |-> rows]

Say(kind, what) == [kind |-> kind, what |-> what]

Init ==
    /\ uploaded_files \in Uploads
    /\ pc = "start"
    /\ file_i = 1
    /\ all_rows = <<>>
    /\ errors = <<>>
    /\ big = EmptyDF
    /\ shown = <<>>
    /\ units = {} /\ unit_sel = {} /\ vendors = {} /\ vendor_sel = {}
    /\ df = <<>>
    /\ detailed = NotMade
    /\ master_df = NotMade
    /\ fn_arg = Null
    /\ fn_ret = Null

\* lines 210-212: nothing uploaded
NoUpload ==
    /\ pc = "start" /\ uploaded_files = <<>>
    /\ shown' = Append(shown, Say("info", <<"Please upload at least one .xlsx file to proceed.">>))
    /\ pc' = "stopped"
    /\ UNCHANGED <<uploaded_files, file_i, all_rows, errors, big, units, unit_sel,
                   vendors, vendor_sel, df, detailed, master_df, fn_arg, fn_ret>>

\* lines 214-216, 123: load_uploaded_excels is entered
CallLoad ==
    /\ pc = "start" /\ uploaded_files # <<>>
    /\ pc' = "load" /\ file_i' = 1 /\ all_rows' = <<>> /\ errors' = <<>>
    /\ UNCHANGED <<uploaded_files, big, shown, units, unit_sel, vendors, vendor_sel,
                   df, detailed, master_df, fn_arg, fn_ret>>

\* lines 124-129: a workbook is read; its non-empty sheets are kept
ReadFile ==
    /\ pc = "load" /\ file_i <= Len(uploaded_files)
    /\ uploaded_files[file_i].ok
    /\ all_rows' = all_rows \o SelectSeq(uploaded_files[file_i].sheets,
                                         LAMBDA sh : sh.rows # <<>>)
    /\ file_i' = file_i + 1
    /\ UNCHANGED <<pc, uploaded_files, errors, big, shown, units, unit_sel, vendors,
                   vendor_sel, df, detailed, master_df, fn_arg, fn_ret>>

\* a variant of ReadFileError that skips the file without collecting its error
ReadFileError_uncollected ==
    /\ pc = "load" /\ file_i <= Len(uploaded_files)
    /\ ~uploaded_files[file_i].ok
    /\ file_i' = file_i + 1
    /\ UNCHANGED <<pc, uploaded_files, all_rows, errors, big, shown, units, unit_sel,
                   vendors, vendor_sel, df, detailed, master_df, fn_arg, fn_ret>>

\* lines 130-131: read_excel raises; the file is skipped
ReadFileError ==
    /\ pc = "load" /\ file_i <= Len(uploaded_files)
    /\ ~uploaded_files[file_i].ok
    /\ errors' = Append(errors, <<uploaded_files[file_i].name, uploaded_files[file_i].msg>>)
    /\ file_i' = file_i + 1
    /\ UNCHANGED <<pc, uploaded_files, all_rows, big, shown, units, unit_sel, vendors,
                   vendor_sel, df, detailed, master_df, fn_arg, fn_ret>>

\* lines 133-134: no sheet held rows
LoadNoRows ==
    /\ pc = "load" /\ file_i > Len(uploaded_files)
    /\ all_rows = <<>>
    /\ big' = EmptyDF
    /\ pc' = "ui_errors"
    /\ UNCHANGED <<uploaded_files, file_i, all_rows, errors, shown, units, unit_sel,
                   vendors, vendor_sel, df, detailed, master_df, fn_arg, fn_ret>>

\* lines 139-141 and 217-219: ValueError("Missing columns"), st.error, st.stop
LoadMissingColumns ==
    /\ pc = "load" /\ file_i > Len(uploaded_files)
    /\ all_rows # <<>>
    /\ MissingColumns(all_rows) # {}
    /\ shown' = Append(shown, Say("error", <<"Missing columns", MissingColumns(all_rows)>>))
    /\ pc' = "stopped"
    /\ UNCHANGED <<uploaded_files, file_i, all_rows, errors, big, units, unit_sel,
                   vendors, vendor_sel, df, detailed, master_df, fn_arg, fn_ret>>

\* lines 96-100 and 217-219: Series.map raises ValueError, st.error, st.stop
LoadPrefixMapError ==
    /\ pc = "load" /\ file_i > Len(uploaded_files)
    /\ all_rows # <<>>
    /\ MissingColumns(all_rows) = {}
    /\ PrefixMapRaises(WithCodes(ConcatStripped(all_rows)))
    /\ shown' = Append(shown, Say("error", <<"ValueError in Series.map">>))
    /\ pc' = "stopped"
    /\ UNCHANGED <<uploaded_files, file_i, all_rows, errors, big, units, unit_sel,
                   vendors, vendor_sel, df, detailed, master_df, fn_arg, fn_ret>>

\* lines 136-152: the unified table with its derived columns is returned
LoadReturn ==
    /\ pc = "load" /\ file_i > Len(uploaded_files)
    /\ all_rows # <<>>
    /\ MissingColumns(all_rows) = {}
    /\ ~PrefixMapRaises(WithCodes(ConcatStripped(all_rows)))
    /\ big' = Derive(ConcatStripped(all_rows))
    /\ pc' = "ui_errors"
    /\ UNCHANGED <<uploaded_files, file_i, all_rows, errors, shown, units, unit_sel,
                   vendors, vendor_sel, df, detailed, master_df, fn_arg, fn_ret>>

\* lines 221-224: the skipped files are listed
UiErrors ==
    /\ pc = "ui_errors"
    /\ shown' = IF errors # <<>> THEN Append(shown, Say("skipped", errors)) ELSE shown
    /\ pc' = "ui_empty"
    /\ UNCHANGED <<uploaded_files, file_i, all_rows, errors, big, units, unit_sel,
                   vendors, vendor_sel, df, detailed, master_df, fn_arg, fn_ret>>

\* lines 226-228
UiNoData ==
    /\ pc = "ui_empty" /\ big.rows = <<>>
    /\ shown' = Append(shown, Say("warning", <<"No usable data found in the uploaded files.">>))
    /\ pc' = "stopped"
    /\ UNCHANGED <<uploaded_files, file_i, all_rows, errors, big, units, unit_sel,
                   vendors, vendor_sel, df, detailed, master_df, fn_arg, fn_ret>>

\* lines 230-246: the user's selections among the offered options
UiFilters ==
    /\ pc = "ui_empty" /\ big.rows # <<>>
    /\ \E usel \in SUBSET Options(big.rows, "Unit No") :
         LET tmp == FilterUnit(big.rows, usel)
         IN  \E vsel \in SUBSET Options(tmp, "Vendor Name") :
               LET d == FilterVendor(tmp, vsel)
               IN  /\ units' = Options(big.rows, "Unit No")
                   /\ unit_sel' = usel
                   /\ vendors' = Options(tmp, "Vendor Name")
                   /\ vendor_sel' = vsel
                   /\ df' = d
                   /\ IF d = <<>>
                      THEN /\ shown' = Append(shown, Say("warning",
                                <<"No data after filters. Adjust Unit/Vendor selections.">>))
                           /\ pc' = "stopped"
                      ELSE /\ shown' = shown
                           /\ pc' = "detail"
    /\ UNCHANGED <<uploaded_files, file_i, all_rows, errors, big, detailed, master_df,
                   fn_arg, fn_ret>>

\* lines 251-272
UiDetailed ==
    /\ pc = "detail"
    /\ detailed' = Made(summarize_by_duct_vendor_po(df))
    /\ pc' = "master"
    /\ UNCHANGED <<uploaded_files, file_i, all_rows, errors, big, shown, units, unit_sel,
                   vendors, vendor_sel, df, master_df, fn_arg, fn_ret>>

\* lines 274-287
UiMaster ==
    /\ pc = "master"
    /\ master_df' = Made(build_master_sheet(df))
    /\ shown' = Append(shown, Say("success", <<"Ready.">>))
    /\ pc' = "done"
    /\ UNCHANGED <<uploaded_files, file_i, all_rows, errors, big, units, unit_sel,
                   vendors, vendor_sel, df, detailed, fn_arg, fn_ret>>

Next ==
    \/ NoUpload \/ CallLoad \/ ReadFile \/ ReadFileError
    \/ LoadNoRows \/ LoadMissingColumns \/ LoadPrefixMapError \/ LoadReturn
    \/ UiErrors \/ UiNoData \/ UiFilters \/ UiDetailed \/ UiMaster

Spec == Init /\ [][Next]_vars

-----------------------------------------------------------------------------
(* The helpers called on their own *)

CodeAlphabet == {"6", "3", "P", "x", "(", " "}

Codes ==
    UNION {[1..n -> CodeAlphabet] : n \in 0..MaxCodeLen}
    \cup {X_AHU_637X01, X_AHU_637HX01, X_AHU_637P02, X_AHU_637123, X_NO_MATCH_HERE,
          X_lower_paren, X_4letters, X_9digits, Null}

DescPool ==
    {D_AB123, D_GB123, D_ab_123, D_PANEL_AB, D_panelassy_gb, D_AB1234, D_XGB123,
     D_DUCT, D_PANEL, D_TAB, Null}

Blocks == UNION {[1..n -> DescPool] : n \in 1..MaxBlock}

Call(f, x) == [f |-> f, x |-> x]

InitHelpers ==
    /\ \/ \E c \in Codes : fn_arg = Call("extract_duct_no", c)
       \/ \E b \in Blocks : fn_arg = Call("detect_duct_prefix_for_block", b)
    /\ fn_ret = Null
    /\ pc = "call"
    /\ uploaded_files = <<>>
    /\ file_i = 1
    /\ all_rows = <<>>
    /\ errors = <<>>
    /\ big = EmptyDF
    /\ shown = <<>>
    /\ units = {} /\ unit_sel = {} /\ vendors = {} /\ vendor_sel = {}
    /\ df = <<>>
    /\ detailed = NotMade
    /\ master_df = NotMade

CallExtractDuctNo ==
    /\ pc = "call" /\ fn_arg.f = "extract_duct_no"
    /\ fn_ret' = extract_duct_no(fn_arg.x)
    /\ pc' = "returned"
    /\ UNCHANGED <<uploaded_files, file_i, all_rows, errors, big, shown, units, unit_sel,
                   vendors, vendor_sel, df, detailed, master_df, fn_arg>>

CallDetectPrefix ==
    /\ pc = "call" /\ fn_arg.f = "detect_duct_prefix_for_block"
    /\ fn_ret' = detect_duct_prefix_for_block(fn_arg.x)
    /\ pc' = "returned"
    /\ UNCHANGED <<uploaded_files, file_i, all_rows, errors, big, shown, units, unit_sel,
                   vendors, vendor_sel, df, detailed, master_df, fn_arg>>

NextHelpers == CallExtractDuctNo \/ CallDetectPrefix

SpecHelpers == InitHelpers /\ [][NextHelpers]_vars

-----------------------------------------------------------------------------
(* Properties *)

\* load_uploaded_excels has returned to the UI script (it did not raise)
LoadReturned ==
    \/ pc \in {"ui_errors", "ui_empty", "detail", "master", "done"}
    \/ pc = "stopped" /\ shown # <<>> /\ shown[Len(shown)].kind = "warning"

\* the filter step has run and both reports are to be, or have been, produced
Filtered == pc \in {"detail", "master", "done"}

DuctNoOf(k) == big.rows[k]["Duct No"]
DuctKeyOf(k) == big.rows[k]["Duct Key"]
DescOf(k) == big.rows[k]["DU Description"]

\* C1: once load_uploaded_excels has attached the derived columns, every row
\* of the unified table has a non-null Duct Key exactly when it has a
\* non-null Duct No.
C1_DuctKeyIffDuctNo ==
    LoadReturned =>
        \A k \in 1..Len(big.rows) : (DuctKeyOf(k) # Null) <=> (DuctNoOf(k) # Null)

\* s holds p, then any number of blanks, then 3 digits, somewhere in it
HasCodeAnywhere(s, p) ==
    \E i \in 1..Len(s) : \E n \in 0..Len(s) :
        /\ i + n + 4 <= Len(s)
        /\ SubSeq(s, i, i + 1) = p
        /\ \A k \in (i + 2)..(i + n + 1) : s[k] = " "
        /\ AllDigits(SubSeq(s, i + n + 2, i + n + 4))

\* the same, as a whole word: no letter, digit or underscore adjoins it
HasCodeAsWord(s, p) ==
    \E i \in 1..Len(s) : \E n \in 0..Len(s) :
        /\ i + n + 4 <= Len(s)
        /\ SubSeq(s, i, i + 1) = p
        /\ \A k \in (i + 2)..(i + n + 1) : s[k] = " "
        /\ AllDigits(SubSeq(s, i + n + 2, i + n + 4))
        /\ (i = 1 \/ ~IsWordChar(s[i - 1]))
        /\ (i + n + 4 = Len(s) \/ ~IsWordChar(s[i + n + 5]))

\* all rows of one duct group carry the same prefix, or none
SamePrefixInGroup ==
    \A k, j \in 1..Len(big.rows) :
        (DuctNoOf(k) # Null /\ DuctNoOf(j) = DuctNoOf(k)) =>
            /\ DuctKeyOf(j) = DuctKeyOf(k)
            /\ DuctKeyOf(k) \in {DuctNoOf(k), S_AB \o DuctNoOf(k), S_GB \o DuctNoOf(k)}

-----------------------------------------------------------------------------

\* the rows of df that the reports include
Included == {k \in 1..Len(df) : df[k]["Duct No"] # Null /\ df[k]["Duct Key"] # Null}

InTuple(r) ==
    <<r["Duct Key"], r["Unit No"], r["WBS Code"], r["Vendor Name"], r["PO No"],
      r["Package Code of Description"]>>

OutTuple(o) ==
    <<o["Duct No"], o["Unit No"], o["WBS Code"], o["Vendor Name"], o["PO No"],
      o["Package Code of Description"]>>

\* the Total Weight cell of row k of df as it was read from the workbook
ReadWeight(k) == Concat(all_rows).rows[df[k]["index"] + 1]["Total Weight"]

\* the weight a cell text stands for; a missing or unparseable one counts 0
WeightOf(cell) ==
    CASE cell = W_10 -> 10 [] cell = W_15 -> 15 [] cell = W_5 -> 5
      [] cell = W_7 -> 7 [] cell = W_20 -> 20 [] OTHER -> 0

RECURSIVE SumReadWeights(_)
SumReadWeights(K) ==
    IF K = {} THEN 0
    ELSE LET k == CHOOSE x \in K : TRUE
         IN  WeightOf(ReadWeight(k)) + SumReadWeights(K \ {k})

RECURSIVE SumTotals(_)
SumTotals(I) ==
    IF I = {} THEN 0
    ELSE LET i == CHOOSE x \in I : TRUE
         IN  detailed.rows[i]["Total Weight"] + SumTotals(I \ {i})

\* C3: the summary has exactly one row per distinct (Duct Key, Unit No, WBS
\* Code, Vendor Name, PO No, Package Code of Description) among the rows with
\* Duct No and Duct Key, a null counting as a value; each Total Weight is the
\* sum of its group's weights, missing or unparseable ones counting 0; the
\* totals add up to the weights of all included rows.
C3_OneRowPerGroup ==
    detailed.made =>
        LET out == detailed.rows
        IN  /\ {OutTuple(out[i]) : i \in 1..Len(out)} = {InTuple(df[k]) : k \in Included}
            /\ \A i, j \in 1..Len(out) : i # j => OutTuple(out[i]) # OutTuple(out[j])
            /\ \A i \in 1..Len(out) :
                  out[i]["Total Weight"] =
                      SumReadWeights({k \in Included : InTuple(df[k]) = OutTuple(out[i])})
            /\ SumTotals(1..Len(out)) = SumReadWeights(Included)

\* a summary row that adds a missing weight to a weight of 10, beside a
\* summary row with a null PO No
C3_Witness ==
    /\ detailed.made
    /\ \E i \in 1..Len(detailed.rows) :
          /\ detailed.rows[i]["Total Weight"] = 10
          /\ \E k, j \in Included :
                /\ k # j
                /\ InTuple(df[k]) = OutTuple(detailed.rows[i])
                /\ InTuple(df[j]) = OutTuple(detailed.rows[i])
                /\ ReadWeight(k) = Null
    /\ \E i \in 1..Len(detailed.rows) : detailed.rows[i]["PO No"] = Null

-----------------------------------------------------------------------------

\* Mark No trimmed and uppercased; a missing Mark No has no such form
MarkForm(v) == IF v = Null THEN <<>> ELSE StrUpper(StrStrip(v))

IsPanelMark(v) ==
    LET m == MarkForm(v)
    IN  Len(m) >= 2 /\ m[1] = "P" /\ \A i \in 2..Len(m) : m[i] \in Digits

IsNumericMark(v) ==
    LET m == MarkForm(v)
    IN  Len(m) >= 1 /\ \A i \in 1..Len(m) : m[i] \in Digits

GroupOfMark(v) == IF IsPanelMark(v) THEN 0 ELSE IF IsNumericMark(v) THEN 1 ELSE 2

\* the number a digit text denotes
RECURSIVE NumberOf(_)
NumberOf(m) ==
    IF m = <<>> THEN 0
    ELSE NumberOf(SubSeq(m, 1, Len(m) - 1)) * 10 + (Ord[m[Len(m)]] - Ord["0"])

\* the group's numeric key: the panel number, the numeric value, else a
\* value above any of them
NumKeyOfMark(v) ==
    IF IsPanelMark(v) THEN NumberOf(Tail(MarkForm(v)))
    ELSE IF IsNumericMark(v) THEN NumberOf(MarkForm(v))
    ELSE ORD_FILL

\* x before y in a text column sorted ascending with nulls last
TextBefore(x, y) == x # Null /\ (y = Null \/ StrLess(x, y))

\* row a strictly before row b in (Duct Key, Unit No, Group, numeric key,
\* PO No, DU Code), a and b rows of the master sheet
MasterTupleBefore(a, b) ==
    LET ga == GroupOfMark(a["Mark No"])
        gb == GroupOfMark(b["Mark No"])
        na == NumKeyOfMark(a["Mark No"])
        nb == NumKeyOfMark(b["Mark No"])
    IN  \/ TextBefore(a["Duct No"], b["Duct No"])
        \/ /\ a["Duct No"] = b["Duct No"]
           /\ \/ TextBefore(a["Unit No"], b["Unit No"])
              \/ /\ a["Unit No"] = b["Unit No"]
                 /\ \/ ga < gb
                    \/ /\ ga = gb
                       /\ \/ na < nb
                          \/ /\ na = nb
                             /\ \/ TextBefore(a["PO No"], b["PO No"])
                                \/ /\ a["PO No"] = b["PO No"]
                                   /\ TextBefore(a["DU Code"], b["DU Code"])

FiveMarks == <<M_P2, M_P10, M_3, M_7, M_X9>>

\* C4: the master sheet is in ascending order of (Duct Key, Unit No, Group,
\* numeric key, PO No, DU Code), nulls last, the numeric key compared as a
\* number; the Mark Nos P2, P10, 3, 7, X9 of one Duct Key and Unit No come
\* out in that order whatever their input order.
C4_MasterOrder ==
    master_df.made =>
        LET out == master_df.rows
        IN  /\ \A i, j \in 1..Len(out) : i < j => ~MasterTupleBefore(out[j], out[i])
            /\ (/\ Len(out) = 5
                /\ {out[i]["Mark No"] : i \in 1..Len(out)} = {FiveMarks[i] : i \in 1..5}
                /\ \A i \in 1..Len(out) : /\ out[i]["Duct No"] = out[1]["Duct No"]
                                          /\ out[i]["Unit No"] = out[1]["Unit No"])
               => Column(out, "Mark No") = FiveMarks

\* the five Mark Nos uploaded in the reverse order come out as P2, P10, 3, 7, X9
C4_Witness ==
    /\ master_df.made
    /\ Len(df) = 5
    /\ Column(df, "Mark No") = <<M_X9, M_7, M_3, M_P10, M_P2>>
    /\ Column(master_df.rows, "Mark No") = FiveMarks

\* C5: the master sheet holds exactly one row for each row of its input that
\* has a Duct Key and a Duct No, and no other row.
C5_MasterIsPermutation ==
    master_df.made =>
        LET out == master_df.rows
        IN  /\ Len(out) = Cardinality(Included)
            /\ {out[i]["index"] : i \in 1..Len(out)} = {df[k]["index"] : k \in Included}
            /\ \A i \in 1..Len(out) : \E k \in Included :
                  /\ out[i]["index"] = df[k]["index"]
                  /\ out[i]["DU Code"] = df[k]["DU Code"]
                  /\ out[i]["Mark No"] = df[k]["Mark No"]
                  /\ out[i]["Duct No"] = df[k]["Duct Key"]

\* a master sheet of two or more rows built from an input with a row that
\* has no Duct No
C5_Witness ==
    /\ master_df.made
    /\ Len(master_df.rows) >= 2
    /\ \E k \in 1..Len(df) : df[k]["Duct No"] = Null

-----------------------------------------------------------------------------

\* the columns of the table obtained from the sheets that were read
IngestedCols ==
    {StripName(c) : c \in UNION {all_rows[i].cols : i \in 1..Len(all_rows)}}

SchemaErrorShown ==
    /\ shown # <<>>
    /\ shown[Len(shown)].kind = "error"
    /\ shown[Len(shown)].what[1] = "Missing columns"
    /\ shown[Len(shown)].what[2] = REQUIRED_COLS \ IngestedCols

NothingProduced ==
    /\ big = EmptyDF
    /\ ~detailed.made
    /\ ~master_df.made

\* C6 as stated: whenever files were uploaded and a required column is
\* absent from the table obtained by ingesting them all, the run ends in a
\* schema error shown to the user, with no derived column computed and no
\* report made.
C6_MissingColumnFails ==
    (/\ pc \notin {"start", "load"}
     /\ uploaded_files # <<>>
     /\ ~(REQUIRED_COLS \subseteq IngestedCols)) =>
        /\ pc = "stopped"
        /\ SchemaErrorShown
        /\ NothingProduced

\* C6 amended: whenever at least one non-empty sheet was read and a required
\* column is absent from the table concatenated from the sheets read, the
\* run ends in a schema error shown to the user, with no derived column
\* computed and no report made.
C6_MissingColumnFailsWhenRowsRead ==
    (/\ pc \notin {"start", "load"}
     /\ all_rows # <<>>
     /\ ~(REQUIRED_COLS \subseteq IngestedCols)) =>
        /\ pc = "stopped"
        /\ SchemaErrorShown
        /\ NothingProduced

\* a run stopped on a table that has rows but no Mark No column
C6_Witness ==
    /\ pc = "stopped"
    /\ all_rows # <<>>
    /\ "Mark No" \notin IngestedCols
    /\ SchemaErrorShown

-----------------------------------------------------------------------------

\* the (name, message) of the files that could not be read, in upload order
UnreadableFiles ==
    LET bad == SelectSeq(uploaded_files, LAMBDA f : ~f.ok)
    IN  [i \in 1..Len(bad) |-> <<bad[i].name, bad[i].msg>>]

\* the rows of the sheets of the readable files, in upload order
ReadableRows ==
    LET good == SelectSeq(uploaded_files, LAMBDA f : f.ok)
    IN  Flatten([i \in 1..Len(good) |->
            Flatten([j \in 1..Len(good[i].sheets) |-> good[i].sheets[j].rows])])

\* big holds the rows of the readable files, cell for cell (Total Weight and
\* Modified On are converted by the load)
BigHoldsReadableRows ==
    /\ Len(big.rows) = Len(ReadableRows)
    /\ \A k \in 1..Len(big.rows) :
          \A c \in DOMAIN ReadableRows[k] \ {"Total Weight", "Modified On"} :
              big.rows[k][StripName(c)] = ReadableRows[k][c]

SkippedFilesShown ==
    \E i \in 1..Len(shown) :
        shown[i].kind = "skipped" /\ shown[i].what = UnreadableFiles

-----------------------------------------------------------------------------

\* C10: when every offered Unit No and every offered Vendor Name is
\* selected, the table handed to the reports is the unified table, rows with
\* a null Unit No or Vendor Name included.
C10_DefaultSelectionKeepsAll ==
    (Filtered /\ unit_sel = units /\ vendor_sel = vendors) => df = big.rows

-----------------------------------------------------------------------------
(* The helpers *)

Returned(f) == pc = "returned" /\ fn_arg.f = f

\* the text before the first "(", without the blanks around it, uppercased
CoreOf(x) ==
    LET paren == {i \in 1..Len(x) : x[i] = "("}
        cut == IF paren = {} THEN x
               ELSE SubSeq(x, 1, (CHOOSE i \in paren : \A j \in paren : i <= j) - 1)
        solid == {i \in 1..Len(cut) : cut[i] # " "}
        first == CHOOSE i \in solid : \A j \in solid : i <= j
        last == CHOOSE i \in solid : \A j \in solid : j <= i
    IN  IF solid = {} THEN <<>> ELSE StrUpper(SubSeq(cut, first, last))

\* t is P and 2 digits, or 1 to 3 uppercase letters and 2 to 3 digits, or
\* exactly 3 digits
IsDuctEnding(t) ==
    LET letters == {k \in 0..Len(t) : \A i \in 1..k : t[i] \in UpperLetters}
        digitsFrom(k) == \A i \in (k + 1)..Len(t) : t[i] \in Digits
    IN  \/ Len(t) = 3 /\ t[1] = "P" /\ digitsFrom(1)
        \/ \E k \in letters : k \in 1..3 /\ Len(t) - k \in 2..3 /\ digitsFrom(k)
        \/ Len(t) = 3 /\ digitsFrom(0)

DUCT_637 == <<"6", "3", "7">>

\* C8: extract_duct_no gives null for a non-string; otherwise it gives the
\* 3-digit group of the trimmed, uppercased text before the first "(" that
\* is followed, up to the end, by P and 2 digits, or 1 to 3 uppercase
\* letters and 2 to 3 digits, or 3 digits, and null when there is none.
C8_ExtractDuctNo ==
    Returned("extract_duct_no") =>
        LET x == fn_arg.x
        IN  /\ x = Null => fn_ret = Null
            /\ x # Null =>
                  LET core == CoreOf(x)
                      fits == {i \in 1..(Len(core) - 2) :
                                  /\ \A d \in 0..2 : core[i + d] \in Digits
                                  /\ IsDuctEnding(SubSeq(core, i + 3, Len(core)))}
                  IN  /\ fits = {} => fn_ret = Null
                      /\ \A i \in fits : fn_ret = SubSeq(core, i, i + 2)
            /\ x \in {X_AHU_637X01, X_AHU_637HX01, X_AHU_637P02, X_AHU_637123}
                  => fn_ret = DUCT_637
            /\ x = X_NO_MATCH_HERE => fn_ret = Null

\* a lowercase code with blanks and a parenthesised suffix gave 637
C8_Witness ==
    /\ Returned("extract_duct_no")
    /\ fn_arg.x = X_lower_paren
    /\ fn_ret = DUCT_637

\* the prefix decided by the four rules in order, the code of a prefix
\* counting anywhere in an uppercased description or only as a whole word
PrefixByPriority(block, whole) ==
    LET Has(u, p) == IF whole THEN HasCodeAsWord(u, p) ELSE HasCodeAnywhere(u, p)
        U == {StrUpper(block[i]) : i \in {k \in 1..Len(block) : block[k] # Null}}
        panel(u) == StrContains(u, D_PANEL)
    IN  CASE \E u \in U : Has(u, S_AB) -> S_AB
          [] (\A u \in U : ~Has(u, S_AB)) /\ (\E u \in U : Has(u, S_GB)) -> S_GB
          [] (\A u \in U : ~Has(u, S_AB) /\ ~Has(u, S_GB))
             /\ (\E u \in U : panel(u) /\ StrContains(u, S_AB)) -> S_AB
          [] (\A u \in U : ~Has(u, S_AB) /\ ~Has(u, S_GB))
             /\ (\A u \in U : ~(panel(u) /\ StrContains(u, S_AB)))
             /\ (\E u \in U : panel(u) /\ StrContains(u, S_GB)) -> S_GB
          [] OTHER -> Null

\* C9 as stated: the prefix of a duct group is decided in strict priority
\* over its uppercased descriptions: AB if any holds AB, optional blanks and
\* 3 digits; else GB if any holds GB, optional blanks and 3 digits; else AB
\* if one holds PANEL and AB; else GB if one holds PANEL and GB; else none.
C9_PrefixPriority ==
    Returned("detect_duct_prefix_for_block") =>
        fn_ret = PrefixByPriority(fn_arg.x, FALSE)

\* C9 amended: the same priority, the AB and GB codes of the first two
\* rules counting only as whole words (no letter, digit or underscore
\* adjoining them); a group holding both AB123 and GB123 gets AB, a group
\* holding a GB code and a PANEL description with AB gets GB.
C9_PrefixPriorityWholeWord ==
    Returned("detect_duct_prefix_for_block") =>
        /\ fn_ret = PrefixByPriority(fn_arg.x, TRUE)
        /\ fn_arg.x = <<D_AB123, D_GB123>> => fn_ret = S_AB
        /\ fn_arg.x = <<D_GB123, D_AB123>> => fn_ret = S_AB
        /\ fn_arg.x = <<D_GB123, D_PANEL_AB>> => fn_ret = S_GB

\* a group holding a GB code and a PANEL description with AB got GB
C9_Witness ==
    /\ Returned("detect_duct_prefix_for_block")
    /\ fn_arg.x = <<D_PANEL_AB, D_GB123>>
    /\ fn_ret = S_GB

====
